---- MODULE Spec2Model ----
(***************************************************************************)
(* A model of FiniteStateMachine (src/automaton.py): the transition        *)
(* relation with its in-place mutators, the queries, word acceptance and   *)
(* the structural transforms.                                              *)
(*                                                                         *)
(* An automaton is a record                                                *)
(*   [alphabet, Q, Qi, Qf, relations, conditions]                          *)
(* where relations and conditions are the two Python dicts, modelled as    *)
(* functions whose DOMAIN is the set of keys of the dict.                  *)
(*                                                                         *)
(* Atomic states are small integers.  CPython iterates a set of small      *)
(* non-negative integers in increasing order, so `for q in <set of ints>`  *)
(* and tuple(<set of ints>) are modelled with the increasing order.  The   *)
(* alphabet is a set of str, whose iteration order changes from one        *)
(* interpreter run to the next (hash randomisation): where the order can   *)
(* change a result, it is an input of the operator.                        *)
(*                                                                         *)
(* Where the identity of the Python objects matters (which automata share  *)
(* a set object), A, B and R are references: records of the addresses, in  *)
(* heap, of the set objects of the automaton.  Elsewhere they are the      *)
(* values themselves and heap is empty.                                    *)
(*                                                                         *)
(* exist_path and set_deterministic are also modelled step by step, for    *)
(* what happens during a call: R is then the record of the locals of the   *)
(* call.                                                                   *)
(***************************************************************************)
EXTENDS Integers, Sequences, FiniteSets, TLC

\* ------------------------------------------------------------------ bounds
MaxWordLen == 3
MaxEdges == 1
MaxTable == 2

Alphabet == {"a", "b"}
States == {1, 2}

VARIABLES A, B, R, op, err, heap

vars == <<A, B, R, op, err, heap>>

\* ---------------------------------------------------------------- helpers
\* The empty dict.
EmptyDict == [k \in {} |-> {}]

\* d[k] = v
Put(d, k, v) == [x \in (DOMAIN d) \cup {k} |-> IF x = k THEN v ELSE d[x]]

\* d.pop(k), k a key of d
Pop(d, k) == [x \in (DOMAIN d) \ {k} |-> d[x]]

\* {**d, **e}
Merge(d, e) == [x \in (DOMAIN d) \cup (DOMAIN e) |-> IF x \in DOMAIN e THEN e[x] ELSE d[x]]

Min(S) == CHOOSE x \in S : \A y \in S : x <= y

Max(S) == CHOOSE x \in S : \A y \in S : x >= y

\* The order in which CPython iterates a set of small integers.
RECURSIVE SetOrder(_)
SetOrder(S) == IF S = {} THEN <<>> ELSE <<Min(S)>> \o SetOrder(S \ {Min(S)})

\* The possible iteration orders of a set of str.
Orders(S) == {s \in [1..Cardinality(S) -> S] : \A i, j \in 1..Cardinality(S) : i # j => s[i] # s[j]}

\* The outcome of a call: the automaton it leaves or returns, and the
\* exception it raised ("none" when it returned).
Ret(fsm, e) == [fsm |-> fsm, err |-> e]

\* ------------------------------------------------------------ constructor
\* FiniteStateMachine(alphabet, Q, Qi, Qf) with no table.
FiniteStateMachine(alphabet, Q, Qi, Qf) ==
    [alphabet |-> alphabet, Q |-> Q, Qi |-> Qi, Qf |-> Qf,
     relations |-> EmptyDict, conditions |-> EmptyDict]

\* ---------------------------------------------------------------- queries
get_rel(fsm, a) == IF a \in DOMAIN fsm.relations THEN fsm.relations[a] ELSE {}

get_cond(fsm, a, b) ==
    IF <<a, b>> \in DOMAIN fsm.conditions THEN fsm.conditions[<<a, b>>] ELSE {}

exist_rel(fsm, a, b) == a \in DOMAIN fsm.relations /\ b \in fsm.relations[a]

\* The argument check of the decorator, for (a, b) and for (a, b, c).
check_rel2(fsm, a, b) == a \in fsm.Q /\ b \in fsm.Q

check_rel3(fsm, a, b, c) == c \in fsm.alphabet /\ a \in fsm.Q /\ b \in fsm.Q

\* --------------------------------------------------------------- mutators
add_state(fsm, a) == [fsm EXCEPT !.Q = @ \cup {a}]

add_relation(fsm, a, b) ==
    IF ~check_rel2(fsm, a, b) THEN Ret(fsm, "ValueError")
    ELSE Ret([fsm EXCEPT !.relations = Put(@, a, get_rel(fsm, a) \cup {b})], "none")

\* add_condition that looks at the letter once the relation is made.
add_condition_LateCheck(fsm, a, b, c) ==
    IF ~check_rel2(fsm, a, b) THEN Ret(fsm, "ValueError")
    ELSE LET f1 == IF exist_rel(fsm, a, b) THEN fsm ELSE add_relation(fsm, a, b).fsm
         IN  IF c \notin fsm.alphabet THEN Ret(f1, "ValueError")
             ELSE Ret([f1 EXCEPT !.conditions = Put(@, <<a, b>>, get_cond(f1, a, b) \cup {c})],
                      "none")

add_condition(fsm, a, b, c) ==
    IF ~check_rel3(fsm, a, b, c) THEN Ret(fsm, "ValueError")
    ELSE LET f1 == IF exist_rel(fsm, a, b) THEN fsm ELSE add_relation(fsm, a, b).fsm
         IN  Ret([f1 EXCEPT !.conditions = Put(@, <<a, b>>, get_cond(f1, a, b) \cup {c})], "none")

remove_condition(fsm, a, b, c) ==
    IF ~exist_rel(fsm, a, b) THEN fsm
    ELSE IF c \in get_cond(fsm, a, b)
         THEN [fsm EXCEPT !.conditions = Put(@, <<a, b>>, get_cond(fsm, a, b) \ {c})]
         ELSE fsm

\* rel[a].remove(b) is done before conditions.pop((a, b)) raises.
remove_relation(fsm, a, b) ==
    IF ~exist_rel(fsm, a, b) THEN Ret(fsm, "none")
    ELSE LET f1 == [fsm EXCEPT !.relations = Put(@, a, fsm.relations[a] \ {b})]
         IN  IF <<a, b>> \in DOMAIN fsm.conditions
             THEN Ret([f1 EXCEPT !.conditions = Pop(@, <<a, b>>)], "none")
             ELSE Ret(f1, "KeyError")

\* The loop of remove_state over the states left to visit.
RECURSIVE remove_state_loop(_, _, _)
remove_state_loop(fsm, q, todo) ==
    IF todo = <<>> THEN Ret(fsm, "none")
    ELSE LET r1 == remove_relation(fsm, q, Head(todo))
         IN  IF r1.err # "none" THEN r1
             ELSE LET r2 == remove_relation(r1.fsm, Head(todo), q)
                  IN  IF r2.err # "none" THEN r2
                      ELSE remove_state_loop(r2.fsm, q, Tail(todo))

remove_state(fsm, q) ==
    IF q \notin fsm.Q THEN Ret(fsm, "none")
    ELSE LET r == remove_state_loop(fsm, q, SetOrder(fsm.Q))
         IN  IF r.err # "none" THEN r
             ELSE Ret([r.fsm EXCEPT
                         !.relations = IF q \in DOMAIN @ THEN Pop(@, q) ELSE @,
                         !.Qi = @ \ {q},
                         !.Qf = @ \ {q},
                         !.Q = @ \ {q}], "none")

\* copy(): a new automaton with copies of the sets and deep copies of the
\* two dicts.
copy(fsm) ==
    [alphabet |-> fsm.alphabet, Q |-> fsm.Q, Qi |-> fsm.Qi, Qf |-> fsm.Qf,
     relations |-> [k \in DOMAIN fsm.relations |-> fsm.relations[k]],
     conditions |-> [k \in DOMAIN fsm.conditions |-> fsm.conditions[k]]]

\* Some sequence of the elements of S: an iteration order of a set whose
\* order does not change the result.
RECURSIVE SeqOf(_)
SeqOf(S) == IF S = {} THEN <<>>
            ELSE LET x == CHOOSE y \in S : TRUE IN <<x>> \o SeqOf(S \ {x})

\* load_table: add_condition for each triple <<src, label, dest>>, in the
\* order todo; the first rejected triple ends the call.
RECURSIVE load_table_loop(_, _)
load_table_loop(fsm, todo) ==
    IF todo = <<>> THEN Ret(fsm, "none")
    ELSE LET r == add_condition(fsm, Head(todo)[1], Head(todo)[3], Head(todo)[2])
         IN  IF r.err # "none" THEN r ELSE load_table_loop(r.fsm, Tail(todo))

\* load_table with the two states of each triple exchanged.
RECURSIVE load_table_Swapped(_, _)
load_table_Swapped(fsm, table) ==
    IF table = {} THEN Ret(fsm, "none")
    ELSE LET t == CHOOSE x \in table : TRUE
             r == add_condition(fsm, t[3], t[1], t[2])
         IN  IF r.err # "none" THEN r ELSE load_table_Swapped(r.fsm, table \ {t})

load_table(fsm, table) == load_table_loop(fsm, SeqOf(table))

create_table(fsm) ==
    UNION {{<<p[1], c, p[2]>> : c \in get_cond(fsm, p[1], p[2])} :
              p \in {pp \in fsm.Q \X fsm.Q : exist_rel(fsm, pp[1], pp[2])}}

\* `for letter in letters: add_condition(a, b, letter)`, with valid arguments.
RECURSIVE add_conditions(_, _, _, _)
add_conditions(fsm, a, b, letters) ==
    IF letters = <<>> THEN fsm
    ELSE add_conditions(add_condition(fsm, a, b, Head(letters)).fsm, a, b, Tail(letters))

create_loop(fsm, state) == add_conditions(fsm, state, state, SeqOf(fsm.alphabet))

possible_path(fsm, src, cond) ==
    {state \in fsm.Q : exist_rel(fsm, src, state) /\ cond \in get_cond(fsm, src, state)}

\* ------------------------------------------------------------ reachability
\* _exist_path returns its result together with the two marker sets, which
\* the recursive calls share and update.
RECURSIVE _exist_path(_, _, _, _, _)
RECURSIVE exist_path_loop(_, _, _, _, _)
_exist_path(fsm, src, dest, black, gray) ==
    IF src = dest THEN [found |-> TRUE, black |-> black, gray |-> gray]
    ELSE IF src \in black THEN [found |-> FALSE, black |-> black, gray |-> gray]
    ELSE LET b2 == IF src \in gray THEN black \cup {src} ELSE black
             g2 == IF src \in gray THEN gray \ {src} ELSE gray \cup {src}
         IN  exist_path_loop(fsm, SetOrder(get_rel(fsm, src)), dest, b2, g2)

exist_path_loop(fsm, todo, dest, black, gray) ==
    IF todo = <<>> THEN [found |-> FALSE, black |-> black, gray |-> gray]
    ELSE LET r == _exist_path(fsm, Head(todo), dest, black, gray)
         IN  IF r.found THEN r
             ELSE exist_path_loop(fsm, Tail(todo), dest, r.black, r.gray)

exist_path(fsm, src, dest) == _exist_path(fsm, src, dest, {}, {}).found

is_state_accessible(fsm, q) == \E qi \in fsm.Qi : exist_path(fsm, qi, q)

is_state_co_accessible(fsm, q) == \E qf \in fsm.Qf : exist_path(fsm, q, qf)

is_accessible(fsm) == \A q \in fsm.Q : is_state_accessible(fsm, q)

is_co_accessible(fsm) == \A q \in fsm.Q : is_state_co_accessible(fsm, q)

\* ---------------------------------------------------------- word acceptance
admit_empty_word(fsm) == fsm.Qi \cap fsm.Qf # {}

\* _admit that returns what the first path gives.
RECURSIVE _admit_FirstPath(_, _, _, _)
_admit_FirstPath(fsm, word, src, i) ==
    IF src \in fsm.Qf /\ i = Len(word) THEN TRUE
    ELSE IF i = Len(word) THEN FALSE
    ELSE LET paths == possible_path(fsm, src, word[i + 1])
         IN  paths # {} /\ _admit_FirstPath(fsm, word, Min(paths), i + 1)

RECURSIVE _admit(_, _, _, _)
_admit(fsm, word, src, i) ==
    IF src \in fsm.Qf /\ i = Len(word) THEN TRUE
    ELSE IF i = Len(word) THEN FALSE
    ELSE \E p \in possible_path(fsm, src, word[i + 1]) : _admit(fsm, word, p, i + 1)

admit(fsm, word) ==
    IF Len(word) = 0 THEN admit_empty_word(fsm)
    ELSE \E src \in fsm.Qi : _admit(fsm, word, src, 0)

\* ------------------------------------------------------------- predicates
is_deterministic(fsm) ==
    \A state \in fsm.Q : \A letter \in fsm.alphabet :
        ~(Cardinality(possible_path(fsm, state, letter)) >= 2)

is_complete(fsm) ==
    \A state \in fsm.Q : \A letter \in fsm.alphabet :
        Cardinality(possible_path(fsm, state, letter)) # 0

\* -------------------------------------------------------------- transforms
\* One state q of the loop of set_complete.  get_cond gives a dict for a
\* relation with no entry in conditions, and `set - dict` raises TypeError.
set_complete_state(self, a, q, trash) ==
    LET neighbours == get_rel(a, q)
    IN  IF neighbours = {}
        THEN Ret(add_conditions(a, q, trash, SeqOf(self.alphabet)), "none")
        ELSE IF \E neighbour \in neighbours : <<q, neighbour>> \notin DOMAIN a.conditions
        THEN Ret(a, "TypeError")
        ELSE LET cond == UNION {a.alphabet \ get_cond(a, q, neighbour) :
                                   neighbour \in neighbours}
             IN  Ret(add_conditions(a, q, trash, SeqOf(cond)), "none")

RECURSIVE set_complete_loop(_, _, _, _)
set_complete_loop(self, a, todo, trash) ==
    IF todo = <<>> THEN Ret(a, "none")
    ELSE LET r == set_complete_state(self, a, Head(todo), trash)
         IN  IF r.err # "none" THEN r
             ELSE set_complete_loop(self, r.fsm, Tail(todo), trash)

set_complete(self) ==
    LET a == copy(self)
    IN  IF is_complete(a) THEN Ret(a, "none")
        ELSE LET trash == Max(a.Q) + 1
                 a1 == create_loop(add_state(a, trash), trash)
             IN  set_complete_loop(self, a1, SetOrder(a1.Q), trash)

\* The states of the automaton set_deterministic builds: the tuple of a set
\* of states of self, and the integer name of a trash state.
tuple(S) == <<"tuple", SetOrder(S)>>

trash_name(k) == <<"int", k>>

\* DetLetter that appends new_state to the queue without the test of done.
DetLetter_NoDoneTest(self, w, states, letter) ==
    LET next_states == UNION {possible_path(self, states[2][i], letter) :
                                 i \in 1..Len(states[2])}
        is_final == next_states \cap self.Qf # {}
        new_state == tuple(next_states)
    IN  IF next_states = {}
        THEN LET t == trash_name(w.trash_states)
                 a1 == create_loop(add_state(w.a, t), t)
             IN  [w EXCEPT !.a = add_condition(a1, states, t, letter).fsm,
                           !.trash_states = @ + 1]
        ELSE LET a1 == IF new_state \notin w.a.Q THEN add_state(w.a, new_state) ELSE w.a
                 a2 == add_condition(a1, states, new_state, letter).fsm
             IN  [w EXCEPT !.a = IF is_final THEN [a2 EXCEPT !.Qf = @ \cup {new_state}]
                                 ELSE a2,
                           !.queue = Append(@, new_state)]

\* One letter of the inner loop of set_deterministic, for the composite
\* state `states`; w is the record of the local variables
\* [a, done, trash_states, queue].
DetLetter(self, w, states, letter) ==
    LET next_states == UNION {possible_path(self, states[2][i], letter) :
                                 i \in 1..Len(states[2])}
        is_final == next_states \cap self.Qf # {}
        new_state == tuple(next_states)
    IN  IF next_states = {}
        THEN LET t == trash_name(w.trash_states)
                 a1 == create_loop(add_state(w.a, t), t)
             IN  [w EXCEPT !.a = add_condition(a1, states, t, letter).fsm,
                           !.trash_states = @ + 1]
        ELSE LET a1 == IF new_state \notin w.a.Q THEN add_state(w.a, new_state) ELSE w.a
                 a2 == add_condition(a1, states, new_state, letter).fsm
             IN  [w EXCEPT !.a = IF is_final THEN [a2 EXCEPT !.Qf = @ \cup {new_state}]
                                 ELSE a2,
                           !.queue = IF new_state \notin w.done THEN Append(@, new_state)
                                     ELSE @]

RECURSIVE DetLetters(_, _, _, _)
DetLetters(self, w, states, letters) ==
    IF letters = <<>> THEN w
    ELSE DetLetters(self, DetLetter(self, w, states, Head(letters)), states, Tail(letters))

\* One turn of the while loop: pop a composite state and expand it.
DetPop(self, w, order) ==
    LET states == Head(w.queue)
    IN  DetLetters(self, [w EXCEPT !.queue = Tail(@), !.done = @ \cup {states}],
                   states, order)

RECURSIVE DetLoop(_, _, _)
DetLoop(self, w, order) ==
    IF w.queue = <<>> THEN w ELSE DetLoop(self, DetPop(self, w, order), order)

\* The local variables of set_deterministic before the while loop.
DetStart(self) ==
    LET init == tuple(self.Qi)
    IN  [a |-> FiniteStateMachine(self.alphabet, {init}, {init}, {}),
         done |-> {}, trash_states |-> 0, queue |-> <<init>>]

\* order: the order in which the alphabet is iterated in this call.
set_deterministic(self, order) ==
    IF is_deterministic(self) THEN copy(self)
    ELSE DetLoop(self, DetStart(self), order).a

\* The loop of set_accessible: remove from a, in the order of todo, each
\* state that is not accessible in a as it stands; a KeyError of
\* remove_state ends the call.
RECURSIVE set_accessible_loop(_, _)
set_accessible_loop(a, todo) ==
    IF todo = <<>> THEN Ret(a, "none")
    ELSE IF is_state_accessible(a, Head(todo)) THEN set_accessible_loop(a, Tail(todo))
    ELSE LET r == remove_state(a, Head(todo))
         IN  IF r.err # "none" THEN r ELSE set_accessible_loop(r.fsm, Tail(todo))

set_accessible(self) ==
    LET a == copy(self)
    IN  IF is_accessible(self) THEN Ret(a, "none")
        ELSE set_accessible_loop(a, SetOrder(self.Q))

RECURSIVE set_co_accessible_loop(_, _)
set_co_accessible_loop(a, todo) ==
    IF todo = <<>> THEN Ret(a, "none")
    ELSE IF is_state_co_accessible(a, Head(todo)) THEN set_co_accessible_loop(a, Tail(todo))
    ELSE LET r == remove_state(a, Head(todo))
         IN  IF r.err # "none" THEN r ELSE set_co_accessible_loop(r.fsm, Tail(todo))

set_co_accessible(self) ==
    LET a == copy(self)
    IN  IF is_co_accessible(a) THEN Ret(a, "none")
        ELSE set_co_accessible_loop(a, SetOrder(self.Q))

\* complementary without `a.Qf = a.Q - a.Qf`.
complementary_NoSwap(self, order) ==
    IF ~(is_deterministic(self) /\ is_complete(self))
    THEN set_deterministic(self, order)
    ELSE copy(self)

complementary(self, order) ==
    LET a == IF ~(is_deterministic(self) /\ is_complete(self))
             THEN set_deterministic(self, order)
             ELSE copy(self)
    IN  [a EXCEPT !.Qf = a.Q \ a.Qf]

\* rework_states that leaves the finals under their old names.
rework_states_OldFinals(self, d_states) ==
    [alphabet |-> self.alphabet,
     Q |-> {d_states[q] : q \in self.Q},
     Qi |-> {d_states[q] : q \in self.Qi},
     Qf |-> self.Qf,
     relations |-> [k \in {d_states[q] : q \in DOMAIN self.relations} |->
                       LET q == CHOOSE x \in DOMAIN self.relations : d_states[x] = k
                       IN  {d_states[p] : p \in get_rel(self, q)}],
     conditions |-> [k \in {<<d_states[q[1]], d_states[q[2]]>> : q \in DOMAIN self.conditions} |->
                       LET q == CHOOSE x \in DOMAIN self.conditions :
                                    <<d_states[x[1]], d_states[x[2]]>> = k
                       IN  self.conditions[q]]]

\* rework_states(d_states) with the dict d_states given.  For an injective
\* d_states each new key comes from one old key.
rework_states(self, d_states) ==
    LET new_rel == [k \in {d_states[q] : q \in DOMAIN self.relations} |->
                       LET q == CHOOSE x \in DOMAIN self.relations : d_states[x] = k
                       IN  {d_states[p] : p \in get_rel(self, q)}]
        new_cond == [k \in {<<d_states[q[1]], d_states[q[2]]>> : q \in DOMAIN self.conditions} |->
                       LET q == CHOOSE x \in DOMAIN self.conditions :
                                    <<d_states[x[1]], d_states[x[2]]>> = k
                       IN  self.conditions[q]]
    IN  [alphabet |-> self.alphabet,
         Q |-> {d_states[q] : q \in self.Q},
         Qi |-> {d_states[q] : q \in self.Qi},
         Qf |-> {d_states[q] : q \in self.Qf},
         relations |-> new_rel,
         conditions |-> new_cond]

\* NextFree without the while loop: the new name is taken as it comes.
NextFree_NoSkip(new_name, taken) == new_name

\* `while new_name in self.get_states(): new_name += 1`
RECURSIVE NextFree(_, _)
NextFree(new_name, taken) ==
    IF new_name \in taken THEN NextFree(new_name + 1, taken) ELSE new_name

\* rename_loop without the `new_name += 1` that follows `rename[q] = new_name`.
RECURSIVE rename_loop_NoStep(_, _, _, _)
rename_loop_NoStep(self, todo, new_name, rename) ==
    IF todo = <<>> THEN rename
    ELSE LET n == NextFree(new_name, self.Q)
         IN  rename_loop_NoStep(self, Tail(todo), n, Put(rename, Head(todo), n))

\* The loop of create_different_states_names over the states of fsm.
RECURSIVE rename_loop(_, _, _, _)
rename_loop(self, todo, new_name, rename) ==
    IF todo = <<>> THEN rename
    ELSE LET n == NextFree(new_name, self.Q)
         IN  rename_loop(self, Tail(todo), n + 1, Put(rename, Head(todo), n))

create_different_states_names(self, fsm) ==
    IF self.Q \cap fsm.Q # {}
    THEN rework_states(fsm, rename_loop(self, SetOrder(fsm.Q), 1, EmptyDict))
    ELSE fsm

union(self, fsm) ==
    LET fsm2 == create_different_states_names(self, fsm)
        a == copy(self)
    IN  [a EXCEPT !.Q = @ \cup fsm2.Q,
                  !.Qi = @ \cup fsm2.Qi,
                  !.Qf = @ \cup fsm2.Qf,
                  !.conditions = Merge(@, fsm2.conditions),
                  !.relations = Merge(@, fsm2.relations)]

\* What product returns for two alphabets that differ: the ValueError
\* instance itself, which is returned and not raised.
ValueErrorObject == [exception |-> "ValueError"]

\* The add_condition calls of product, as the triples <<src, label, dest>>
\* of load_table.
product_table(self, fsm2) ==
    UNION {{<<<<s[1], s[2]>>, letter, <<n[1], n[2]>>>> :
               n \in {state \in get_rel(self, s[1]) : letter \in get_cond(self, s[1], state)}
                     \X {state \in get_rel(fsm2, s[2]) : letter \in get_cond(fsm2, s[2], state)}} :
              s \in self.Q \X fsm2.Q, letter \in self.alphabet}

\* product that pairs the states of self with those of fsm as it was given.
product_Unrenamed(self, fsm) ==
    IF self.alphabet # fsm.alphabet THEN Ret(ValueErrorObject, "none")
    ELSE LET new_states == self.Q \X fsm.Q
             a == [FiniteStateMachine(self.alphabet, {}, {}, {}) EXCEPT !.Q = new_states]
             r == load_table_loop(a, SeqOf(product_table(self, fsm)))
         IN  IF r.err # "none" THEN r
             ELSE Ret([r.fsm EXCEPT !.Qi = self.Qi \X fsm.Qi], "none")

product(self, fsm) ==
    IF self.alphabet # fsm.alphabet THEN Ret(ValueErrorObject, "none")
    ELSE LET fsm2 == create_different_states_names(self, fsm)
             new_states == self.Q \X fsm2.Q
             a == [FiniteStateMachine(self.alphabet, {}, {}, {}) EXCEPT !.Q = new_states]
             r == load_table_loop(a, SeqOf(product_table(self, fsm2)))
         IN  IF r.err # "none" THEN r
             ELSE Ret([r.fsm EXCEPT !.Qi = self.Qi \X fsm2.Qi], "none")

\* The finals are pairs of the states of self and of fsm as it was given,
\* not as product renamed it.
intersection(self, fsm) ==
    LET r == product(self, fsm)
    IN  IF r.err # "none" THEN r
        ELSE IF self.alphabet # fsm.alphabet
        THEN Ret([exception |-> "ValueError", Qf |-> self.Qf \X fsm.Qf], "none")
        ELSE Ret([r.fsm EXCEPT !.Qf = self.Qf \X fsm.Qf], "none")

\* The default d_states of rework_states: the states numbered from 1 in the
\* order of their iteration.
default_d_states(self) ==
    LET order == SetOrder(self.Q)
    IN  [q \in self.Q |-> CHOOSE i \in 1..Len(order) : order[i] = q]

\* ------------------------------------------------- objects and references
\* heap is the sequence of the set objects made so far, and the address of
\* an object is its index.  A reference to an automaton is the record of the
\* addresses of its alphabet, Q, Qi and Qf and, for its two dicts (each
\* automaton has dicts of its own), of the set object under each key.

\* The automaton that the reference x denotes in the heap h.
Val(h, x) ==
    [alphabet |-> h[x.alphabet], Q |-> h[x.Q], Qi |-> h[x.Qi], Qf |-> h[x.Qf],
     relations |-> [k \in DOMAIN x.relations |-> h[x.relations[k]]],
     conditions |-> [k \in DOMAIN x.conditions |-> h[x.conditions[k]]]]

\* New set objects for the values of d under the keys of todo, added to the
\* dict of addresses x.
RECURSIVE NewEntries(_, _, _, _)
NewEntries(h, d, todo, x) ==
    IF todo = <<>> THEN [h |-> h, x |-> x]
    ELSE NewEntries(Append(h, d[Head(todo)]), d, Tail(todo),
                    Put(x, Head(todo), Len(h) + 1))

\* An automaton of value v made of new set objects, but for its alphabet,
\* which is the object at the address alphabet.
NewObjects(h, v, alphabet) ==
    LET h1 == h \o <<v.Q, v.Qi, v.Qf>>
        r == NewEntries(h1, v.relations, SeqOf(DOMAIN v.relations), EmptyDict)
        c == NewEntries(r.h, v.conditions, SeqOf(DOMAIN v.conditions), EmptyDict)
    IN  [h |-> c.h,
         x |-> [alphabet |-> alphabet, Q |-> Len(h) + 1, Qi |-> Len(h) + 2,
                Qf |-> Len(h) + 3, relations |-> r.x, conditions |-> c.x]]

\* An automaton of value v made of new set objects only.
New(h, v) == NewObjects(Append(h, v.alphabet), v, Len(h) + 1)

\* The heap and the reference x after in-place calls through x (add_state,
\* add_relation, add_condition, remove_condition, remove_relation,
\* remove_state) that bring the automaton to the value v.  These calls
\* change a set object that is there (set.add, set.remove), make a new one
\* under a new key, or pop a key; they never put a new object under a key or
\* an attribute that has one.
InPlace(h, x, v) ==
    LET keptR == DOMAIN x.relations \cap DOMAIN v.relations
        keptC == DOMAIN x.conditions \cap DOMAIN v.conditions
        h1 == [a \in DOMAIN h |->
                 IF a = x.Q THEN v.Q
                 ELSE IF a = x.Qi THEN v.Qi
                 ELSE IF a = x.Qf THEN v.Qf
                 ELSE IF \E k \in keptR : x.relations[k] = a
                 THEN v.relations[CHOOSE k \in keptR : x.relations[k] = a]
                 ELSE IF \E k \in keptC : x.conditions[k] = a
                 THEN v.conditions[CHOOSE k \in keptC : x.conditions[k] = a]
                 ELSE h[a]]
        r == NewEntries(h1, v.relations,
                        SeqOf(DOMAIN v.relations \ DOMAIN x.relations),
                        [k \in keptR |-> x.relations[k]])
        c == NewEntries(r.h, v.conditions,
                        SeqOf(DOMAIN v.conditions \ DOMAIN x.conditions),
                        [k \in keptC |-> x.conditions[k]])
    IN  [h |-> c.h, x |-> [x EXCEPT !.relations = r.x, !.conditions = c.x]]

\* copy() that returns self.
copy_ref_Alias(h, self) == [h |-> h, x |-> self]

\* copy(): copies of the four sets and deep copies of the two dicts.
copy_ref(h, self) == New(h, copy(Val(h, self)))

\* set_complete: the add_state and add_condition calls are made on
\* a = self.copy().
set_complete_ref(h, self) ==
    LET c == copy_ref(h, self)
    IN  InPlace(c.h, c.x, set_complete(Val(h, self)).fsm)

\* set_deterministic: a copy, or a new automaton that has the alphabet
\* object of self.
set_deterministic_ref(h, self, order) ==
    IF is_deterministic(Val(h, self)) THEN copy_ref(h, self)
    ELSE NewObjects(h, set_deterministic(Val(h, self), order), self.alphabet)

\* set_accessible: the remove_state calls are made on a = self.copy().
set_accessible_ref(h, self) ==
    LET c == copy_ref(h, self)
    IN  InPlace(c.h, c.x, set_accessible(Val(h, self)).fsm)

set_co_accessible_ref(h, self) ==
    LET c == copy_ref(h, self)
    IN  InPlace(c.h, c.x, set_co_accessible(Val(h, self)).fsm)

\* complementary: `a.Qf = a.Q - a.Qf` gives a a new set object.
complementary_ref(h, self, order) ==
    LET v == Val(h, self)
        c == IF ~(is_deterministic(v) /\ is_complete(v))
             THEN set_deterministic_ref(h, self, order)
             ELSE copy_ref(h, self)
        a == Val(c.h, c.x)
    IN  [h |-> Append(c.h, a.Q \ a.Qf), x |-> [c.x EXCEPT !.Qf = Len(c.h) + 1]]

\* rework_states: new sets and dicts, and a copy of the alphabet.
rework_states_ref(h, self, d_states) == New(h, rework_states(Val(h, self), d_states))

\* create_different_states_names: the renamed automaton, or fsm itself.
create_different_states_names_ref(h, self, fsm) ==
    IF Val(h, self).Q \cap Val(h, fsm).Q # {}
    THEN rework_states_ref(h, fsm,
             rename_loop(Val(h, self), SetOrder(Val(h, fsm).Q), 1, EmptyDict))
    ELSE [h |-> h, x |-> fsm]

\* union: `|=` changes the three sets of a = self.copy() in place; the two
\* new dicts have, under the keys of fsm, the set objects of fsm.
union_ref(h, self, fsm) ==
    LET f == create_different_states_names_ref(h, self, fsm)
        c == copy_ref(f.h, self)
        a == c.x
        h1 == [c.h EXCEPT ![a.Q] = @ \cup c.h[f.x.Q],
                          ![a.Qi] = @ \cup c.h[f.x.Qi],
                          ![a.Qf] = @ \cup c.h[f.x.Qf]]
    IN  [h |-> h1,
         x |-> [a EXCEPT !.conditions = Merge(@, f.x.conditions),
                         !.relations = Merge(@, f.x.relations)]]

\* product of two automata of one alphabet: a new automaton that has the
\* alphabet object of self.
product_ref(h, self, fsm) ==
    NewObjects(h, product(Val(h, self), Val(h, fsm)).fsm, self.alphabet)

\* intersection: `a.Qf = set(product(...))` gives the product a new set.
intersection_ref(h, self, fsm) ==
    LET c == product_ref(h, self, fsm)
    IN  [h |-> Append(c.h, Val(h, self).Qf \X Val(h, fsm).Qf),
         x |-> [c.x EXCEPT !.Qf = Len(c.h) + 1]]

\* ------------------------------------------------------------------ inputs
\* The words the claims are checked on.
Words == UNION {[1..n -> Alphabet] : n \in 0..MaxWordLen}

\* What the caller has done with the pair (a, b) of states since the
\* construction: nothing, add_relation(a, b) alone, or add_condition(a, b, c)
\* for the letters c of a set (for the empty set: one add_condition followed
\* by the remove_condition of the same letter).
CellsOver(alphabet) ==
    {<<"none", {}>>, <<"bare", {}>>} \cup {<<"cond", S>> : S \in SUBSET alphabet}

Cells == CellsOver(Alphabet)

Calls(fsm, a, b, cell) ==
    IF cell[1] = "none" THEN fsm
    ELSE IF cell[1] = "bare" THEN add_relation(fsm, a, b).fsm
    ELSE IF cell[2] = {}
         THEN LET c == CHOOSE x \in fsm.alphabet : TRUE
              IN  remove_condition(add_condition(fsm, a, b, c).fsm, a, b, c)
         ELSE add_conditions(fsm, a, b, SeqOf(cell[2]))

RECURSIVE BuildLoop(_, _, _)
BuildLoop(fsm, todo, hist) ==
    IF todo = <<>> THEN fsm
    ELSE BuildLoop(Calls(fsm, Head(todo)[1], Head(todo)[2], hist[Head(todo)]),
                   Tail(todo), hist)

\* The automaton FiniteStateMachine(alphabet, Q, Qi, Qf) after the calls of
\* hist, a function from the pairs of states to Cells.
Build(alphabet, Q, Qi, Qf, hist) ==
    BuildLoop(FiniteStateMachine(alphabet, Q, Qi, Qf), SeqOf(DOMAIN hist), hist)

\* The value of R while no transform has returned an automaton.
NoResult == FiniteStateMachine({}, {}, {}, {})

\* The heap of the specifications that hold the automata by value.
NoHeap == <<>>

\* The value of op: the name of the last call and its arguments.
Call(name, args) == [name |-> name, args |-> args]

\* ------------------------------------------- specification: the transforms
\* A is the receiver, drawn from the automata that the constructor and the
\* mutators give over States; each action is one call on A, whose result is
\* R and whose exception, if any, is err.
Init ==
    /\ \E Q \in SUBSET States : \E Qi \in SUBSET Q : \E Qf \in SUBSET Q :
         \E hist \in [Q \X Q -> Cells] :
            A = Build(Alphabet, Q, Qi, Qf, hist)
    /\ B = NoResult
    /\ R = NoResult
    /\ op = Call("init", <<>>)
    /\ err = "none"
    /\ heap = NoHeap

Returned(name, r) ==
    /\ op.name = "init"
    /\ op' = Call(name, <<>>)
    /\ R' = IF r.err = "none" THEN r.fsm ELSE NoResult
    /\ err' = r.err
    /\ UNCHANGED <<A, B, heap>>

SetDeterministic ==
    \E order \in Orders(A.alphabet) :
        Returned("set_deterministic", Ret(set_deterministic(A, order), "none"))

SetComplete == Returned("set_complete", set_complete(A))

SetAccessible == Returned("set_accessible", set_accessible(A))

SetCoAccessible == Returned("set_co_accessible", set_co_accessible(A))

Complementary ==
    \E order \in Orders(A.alphabet) :
        Returned("complementary", Ret(complementary(A, order), "none"))

\* load_table(create_table(A)) on a fresh automaton with the alphabet, the
\* states, the initials and the finals of A.
RoundTrip ==
    Returned("load_table",
             load_table(FiniteStateMachine(A.alphabet, A.Q, A.Qi, A.Qf), create_table(A)))

Next ==
    \/ SetDeterministic
    \/ SetComplete
    \/ SetAccessible
    \/ SetCoAccessible
    \/ Complementary
    \/ RoundTrip

Spec == Init /\ [][Next]_vars

\* ----------------------------------------------------------------- claims
\* The automaton accepts the same words of Words as A.
SameLanguage(x, y) == \A w \in Words : admit(x, w) = admit(y, w)

\* C1: for every automaton A and every word w, set_deterministic(A).admit(w)
\* equals A.admit(w).
C1_DeterminizeKeepsLanguage ==
    (op.name = "set_deterministic" /\ err = "none") => SameLanguage(R, A)

\* C2: for every automaton A, set_deterministic(A) is deterministic and
\* complete.
C2_DeterminizeIsDetComplete ==
    (op.name = "set_deterministic" /\ err = "none") => (is_deterministic(R) /\ is_complete(R))

\* The automaton accepts exactly the words of Words that A rejects.
ComplementLanguage(x, y) == \A w \in Words : admit(x, w) = ~admit(y, w)

\* C5: for every automaton A that is_deterministic() and is_complete(), and
\* every word w, complementary(A).admit(w) equals not A.admit(w).
C5_ComplementOfDetComplete ==
    (op.name = "complementary" /\ is_deterministic(A) /\ is_complete(A))
        => ComplementLanguage(R, A)

\* C6: for every automaton A that is not both deterministic and complete,
\* complementary(A) is deterministic and complete and accepts exactly the
\* words that A rejects.
C6_ComplementDeterminizesFirst ==
    (op.name = "complementary" /\ ~(is_deterministic(A) /\ is_complete(A)))
        => (is_deterministic(R) /\ is_complete(R) /\ ComplementLanguage(R, A))

\* C7: for every deterministic automaton A with integer state names,
\* set_complete(A) returns an automaton that accepts the same words as A and
\* is complete.
C7_CompleteKeepsLanguage ==
    (op.name = "set_complete" /\ is_deterministic(A))
        => (err = "none" /\ SameLanguage(R, A) /\ is_complete(R))

\* C8: for every automaton A, set_accessible(A) returns an automaton that is
\* accessible and accepts the same words as A.
C8_AccessibleKeepsLanguage ==
    op.name = "set_accessible"
        => (err = "none" /\ is_accessible(R) /\ SameLanguage(R, A))

\* C9: loading create_table(A) into a fresh automaton with the alphabet,
\* states, initials and finals of A gives an automaton that accepts the words
\* A accepts and whose create_table() is create_table(A).
C9_TableRoundTrip ==
    op.name = "load_table"
        => (err = "none" /\ SameLanguage(R, A) /\ create_table(R) = create_table(A))

\* --------------------------------------------- specification: the mutators
\* The in-place operations on one automaton A that starts empty.  The
\* arguments are drawn from States and from ArgLetters, which has one letter
\* that is not in the alphabet.
ArgLetters == Alphabet \cup {"z"}

InitMut ==
    /\ A = FiniteStateMachine(Alphabet, {}, {}, {})
    /\ B = NoResult
    /\ R = NoResult
    /\ op = Call("init", <<>>)
    /\ err = "none"
    /\ heap = NoHeap

Mutated(name, args, r) ==
    /\ A' = r.fsm
    /\ op' = Call(name, args)
    /\ err' = r.err
    /\ UNCHANGED <<B, R, heap>>

AddState == \E a \in States : Mutated("add_state", <<a>>, Ret(add_state(A, a), "none"))

AddRelation ==
    \E a \in States, b \in States :
        Mutated("add_relation", <<a, b>>, add_relation(A, a, b))

AddCondition ==
    \E a \in States, b \in States, c \in ArgLetters :
        Mutated("add_condition", <<a, b, c>>, add_condition(A, a, b, c))

RemoveCondition ==
    \E a \in States, b \in States, c \in ArgLetters :
        Mutated("remove_condition", <<a, b, c>>, Ret(remove_condition(A, a, b, c), "none"))

RemoveRelation ==
    \E a \in States, b \in States :
        Mutated("remove_relation", <<a, b>>, remove_relation(A, a, b))

RemoveState == \E q \in States : Mutated("remove_state", <<q>>, remove_state(A, q))

NextMut ==
    \/ AddState
    \/ AddRelation
    \/ AddCondition
    \/ RemoveCondition
    \/ RemoveRelation
    \/ RemoveState

SpecMut == InitMut /\ [][NextMut]_vars

\* A round trip of a table of three triples at least, of an automaton that
\* accepts a word of two letters at least.
C9_Witness ==
    /\ op.name = "load_table"
    /\ err = "none"
    /\ Cardinality(create_table(A)) >= 3
    /\ \E w \in Words : Len(w) >= 2 /\ admit(A, w)

\* C10: after any sequence of mutator calls on an initially empty automaton,
\* for all states a, b: b is in relations[a] if and only if conditions[(a, b)]
\* exists and is not empty.
C10_RelationsMatchConditions ==
    \A a \in States : \A b \in States :
        exist_rel(A, a, b) <=>
            (<<a, b>> \in DOMAIN A.conditions /\ A.conditions[<<a, b>>] # {})

\* ------------------------------------ specification: the binary transforms
\* A is the receiver and B the argument of union, product and intersection.
\* Each has had calls on at most MaxEdges pairs of its states; B has the
\* alphabet of A or OtherAlphabet.
OtherAlphabet == {"b", "c"}

Hists(Q, alphabet) ==
    {h \in [Q \X Q -> CellsOver(alphabet)] :
        Cardinality({p \in Q \X Q : h[p][1] # "none"}) <= MaxEdges}

Automata(alphabet) ==
    UNION {UNION {UNION {{Build(alphabet, Q, Qi, Qf, hist) : hist \in Hists(Q, alphabet)} :
                            Qf \in SUBSET Q} : Qi \in SUBSET Q} : Q \in SUBSET States}

Receivers == Automata(Alphabet)

Arguments == Automata(Alphabet) \cup Automata(OtherAlphabet)

InitBin ==
    /\ A \in Receivers
    /\ B \in Arguments
    /\ R = NoResult
    /\ op = Call("init", <<>>)
    /\ err = "none"
    /\ heap = NoHeap

Union == Returned("union", Ret(union(A, B), "none"))

Product == Returned("product", product(A, B))

Intersection == Returned("intersection", intersection(A, B))

NextBin ==
    \/ Union
    \/ Product
    \/ Intersection

SpecBin == InitBin /\ [][NextBin]_vars

\* The words over the letters of A and of B.
BinWords == UNION {[1..n -> Alphabet \cup OtherAlphabet] : n \in 0..MaxWordLen}

\* C3: for every pair of automata A and B over the same alphabet and every
\* word w, intersection(A, B).admit(w) equals A.admit(w) and B.admit(w).
C3_IntersectionLaw ==
    (op.name = "intersection" /\ A.alphabet = B.alphabet)
        => (err = "none" /\ \A w \in BinWords : admit(R, w) = (admit(A, w) /\ admit(B, w)))

\* C4: for every pair of automata A and B and every word w,
\* union(A, B).admit(w) equals A.admit(w) or B.admit(w).
C4_UnionLaw ==
    op.name = "union"
        => (err = "none" /\ \A w \in BinWords : admit(R, w) = (admit(A, w) \/ admit(B, w)))

\* A union of two automata that share a state name and of which each
\* accepts a word, of one letter at least, that the other rejects.
C4_Witness ==
    /\ op.name = "union"
    /\ err = "none"
    /\ A.Q \cap B.Q # {}
    /\ \E w \in BinWords : Len(w) >= 1 /\ admit(A, w) /\ ~admit(B, w)
    /\ \E w \in BinWords : Len(w) >= 1 /\ admit(B, w) /\ ~admit(A, w)

\* ------------------------------------ specification: objects and references
\* A, B and R are references into heap.  A is the receiver and B the
\* argument, if there is one, of one transform, which gives R.  A and B keep
\* the invariants of the data model: every relation has a condition set
\* that is not empty.
NoHandle ==
    [alphabet |-> 0, Q |-> 0, Qi |-> 0, Qf |-> 0,
     relations |-> EmptyDict, conditions |-> EmptyDict]

RefCells == {<<"none", {}>>} \cup {<<"cond", S>> : S \in (SUBSET Alphabet) \ {{}}}

RefHists(Q, n) ==
    {h \in [Q \X Q -> RefCells] : Cardinality({p \in Q \X Q : h[p][1] # "none"}) <= n}

\* The automata over States with transitions between n pairs of states at
\* most.
RefAutomata(n) ==
    UNION {UNION {UNION {{Build(Alphabet, Q, Qi, Qf, hist) : hist \in RefHists(Q, n)} :
                            Qf \in SUBSET Q} : Qi \in SUBSET Q} : Q \in SUBSET States}

\* The receivers of the transforms that have no argument.
RefReceivers == RefAutomata(MaxEdges + 1)

\* The receivers and the arguments of union, product and intersection: the
\* initials and the finals are each empty or Q.
RefArguments == {v \in RefAutomata(MaxEdges) : v.Qi \in {{}, v.Q} /\ v.Qf \in {{}, v.Q}}

\* The receivers of unary and the pairs of binary, as new objects.
InitOf(unary, binary) ==
    /\ \/ \E v \in unary :
            LET a == New(<<>>, v)
            IN  A = a.x /\ B = NoHandle /\ heap = a.h
       \/ \E v \in binary, w \in binary :
            LET a == New(<<>>, v)
                b == New(a.h, w)
            IN  A = a.x /\ B = b.x /\ heap = b.h
    /\ R = NoHandle
    /\ op = Call("init", <<>>)
    /\ err = "none"

InitRef == InitOf(RefReceivers, RefArguments)

\* A transform returns the reference r.x and leaves the heap r.h.
Transformed(name, r) ==
    /\ op.name = "init"
    /\ op' = Call(name, <<>>)
    /\ heap' = r.h
    /\ R' = r.x
    /\ err' = "none"
    /\ UNCHANGED <<A, B>>

RefCopy == B = NoHandle /\ Transformed("copy", copy_ref(heap, A))

RefSetDeterministic ==
    /\ B = NoHandle
    /\ \E order \in Orders(Alphabet) :
         Transformed("set_deterministic", set_deterministic_ref(heap, A, order))

RefSetComplete == B = NoHandle /\ Transformed("set_complete", set_complete_ref(heap, A))

RefSetAccessible == B = NoHandle /\ Transformed("set_accessible", set_accessible_ref(heap, A))

RefSetCoAccessible ==
    B = NoHandle /\ Transformed("set_co_accessible", set_co_accessible_ref(heap, A))

RefComplementary ==
    /\ B = NoHandle
    /\ \E order \in Orders(Alphabet) :
         Transformed("complementary", complementary_ref(heap, A, order))

RefReworkStates ==
    /\ B = NoHandle
    /\ Transformed("rework_states",
                   rework_states_ref(heap, A, default_d_states(Val(heap, A))))

RefUnion == B # NoHandle /\ Transformed("union", union_ref(heap, A, B))

RefProduct == B # NoHandle /\ Transformed("product", product_ref(heap, A, B))

RefIntersection ==
    B # NoHandle /\ Transformed("intersection", intersection_ref(heap, A, B))

RefTransforms ==
    {"copy", "set_deterministic", "set_complete", "set_accessible", "set_co_accessible",
     "complementary", "rework_states", "union", "product", "intersection"}

\* The transforms whose result has the integer state names of its inputs.
RefAtomic ==
    {"copy", "set_complete", "set_accessible", "set_co_accessible", "rework_states", "union"}

\* The automata there are once a transform has returned.
RefTargets ==
    IF op.name \notin RefTransforms THEN {}
    ELSE IF B = NoHandle THEN {"A", "R"} ELSE {"A", "B", "R"}

Handle(target) == IF target = "A" THEN A ELSE IF target = "B" THEN B ELSE R

\* An in-place call on the automaton target, that brings it to the value
\* r.fsm.
Touched(name, target, r) ==
    /\ op.name \in RefTransforms
    /\ LET w == InPlace(heap, Handle(target), r.fsm)
       IN  /\ heap' = w.h
           /\ A' = IF target = "A" THEN w.x ELSE A
           /\ B' = IF target = "B" THEN w.x ELSE B
           /\ R' = IF target = "R" THEN w.x ELSE R
    /\ op' = Call(name, <<target>>)
    /\ err' = r.err

RefAddCondition ==
    \E target \in RefTargets :
        LET v == Val(heap, Handle(target))
        IN  \E a \in v.Q, b \in v.Q, c \in Alphabet :
                Touched("add_condition", target, add_condition(v, a, b, c))

RefRemoveCondition ==
    \E target \in RefTargets :
        LET v == Val(heap, Handle(target))
        IN  \E a \in v.Q, b \in v.Q, c \in Alphabet :
                Touched("remove_condition", target, Ret(remove_condition(v, a, b, c), "none"))

RefRemoveRelation ==
    \E target \in RefTargets :
        LET v == Val(heap, Handle(target))
        IN  \E a \in v.Q, b \in v.Q :
                Touched("remove_relation", target, remove_relation(v, a, b))

\* remove_state iterates the states: on R, for the integer state names.
RefRemoveState ==
    \E target \in RefTargets :
        /\ target = "R" => op.name \in RefAtomic
        /\ LET v == Val(heap, Handle(target))
           IN  \E q \in v.Q : Touched("remove_state", target, remove_state(v, q))

NextRef ==
    \/ RefCopy
    \/ RefSetDeterministic
    \/ RefSetComplete
    \/ RefSetAccessible
    \/ RefSetCoAccessible
    \/ RefComplementary
    \/ RefReworkStates
    \/ RefUnion
    \/ RefProduct
    \/ RefIntersection

SpecRef == InitRef /\ [][NextRef]_vars

\* ------------------------ specification: an in-place call after a transform
\* As SpecRef, and one in-place call on A, B or R follows the transform.
\* The initials and the finals, which are sets of their own in every
\* automaton, are both empty or both Q.
SharedAutomata == {v \in RefArguments : v.Qf = v.Qi}

InitShared == InitOf(SharedAutomata, SharedAutomata)

NextShared ==
    \/ NextRef
    \/ RefAddCondition
    \/ RefRemoveCondition
    \/ RefRemoveRelation
    \/ RefRemoveState

SpecShared == InitShared /\ [][NextShared]_vars

\* The invariants of the data model that C11 names, of the automaton v.
KeepsInvariants(v) ==
    /\ v.Qi \subseteq v.Q
    /\ v.Qf \subseteq v.Q
    /\ \A a \in DOMAIN v.relations : a \in v.Q /\ v.relations[a] \subseteq v.Q
    /\ \A k \in DOMAIN v.conditions :
         k[1] \in v.Q /\ k[2] \in v.Q /\ v.conditions[k] \subseteq v.alphabet

\* C11: for inputs that satisfy the invariants of the data model, the
\* automaton that a transform returns has its initials and its finals among
\* its states, every endpoint of a relation or a condition among its states,
\* and every symbol of a condition in its alphabet.
C11_TransformsKeepInvariants ==
    (op.name \in RefTransforms \ {"copy"}) => KeepsInvariants(Val(heap, R))

\* C12: each transform leaves its receiver and its argument as they were:
\* the alphabet, states, initials, finals, relations and conditions of A and
\* of B after the call are those before it.
C12_TransformsLeaveInputs ==
    [][op'.name \in RefTransforms =>
          /\ Val(heap', A') = Val(heap, A)
          /\ B # NoHandle => Val(heap', B') = Val(heap, B)]_vars

\* A transform whose in-place calls have changed the copy it works on:
\* set_complete that added the trash state, set_accessible that removed a
\* state, or a union with an automaton that has transitions.
C12_Witness ==
    \/ op.name = "set_complete" /\ Val(heap, R).Q # Val(heap, A).Q
    \/ op.name = "set_accessible" /\ Val(heap, R).Q # Val(heap, A).Q
                                  /\ DOMAIN Val(heap, R).conditions # DOMAIN Val(heap, A).conditions
    \/ op.name = "union" /\ Val(heap, R).Q # Val(heap, A).Q
                         /\ DOMAIN B.conditions # {}

\* The in-place calls of SpecShared.
RefMutators == {"add_condition", "remove_condition", "remove_relation", "remove_state"}

\* The relations and the conditions of the automaton at x.
RelCond(h, x) == <<Val(h, x).relations, Val(h, x).conditions>>

\* C13: once a transform has returned R from A (and B), no in-place call on
\* R changes the relations or the conditions of A or of B, and none on A or
\* on B changes those of R.
C13_NoSharedObjects ==
    [][op'.name \in RefMutators =>
          /\ op'.args = <<"R">> =>
                /\ RelCond(heap', A') = RelCond(heap, A)
                /\ B # NoHandle => RelCond(heap', B') = RelCond(heap, B)
          /\ op'.args # <<"R">> => RelCond(heap', R') = RelCond(heap, R)]_vars

\* C14: in every state that the mutators reach, remove_condition(a, b, c),
\* remove_relation(a, b) and remove_state(q) end without an error whatever
\* their arguments; when what they remove is not there the automaton is left
\* as it was; and remove_relation of a relation that is there leaves neither
\* the relation nor a condition set for (a, b).
C14_RemovesArePermissive ==
    [][/\ op'.name \in {"remove_condition", "remove_relation", "remove_state"} =>
             err' = "none"
       /\ (op'.name = "remove_condition"
             /\ (~exist_rel(A, op'.args[1], op'.args[2])
                   \/ op'.args[3] \notin get_cond(A, op'.args[1], op'.args[2]))) => A' = A
       /\ (op'.name = "remove_relation" /\ ~exist_rel(A, op'.args[1], op'.args[2])) => A' = A
       /\ (op'.name = "remove_state" /\ op'.args[1] \notin A.Q) => A' = A
       /\ (op'.name = "remove_relation" /\ exist_rel(A, op'.args[1], op'.args[2])) =>
             /\ ~exist_rel(A', op'.args[1], op'.args[2])
             /\ <<op'.args[1], op'.args[2]>> \notin DOMAIN A'.conditions]_vars

\* C15: add_relation(a, b) is rejected when a or b is not a state,
\* add_condition(a, b, c) when c is not in the alphabet or a or b is not a
\* state, and a rejected call leaves the automaton as it was.
C15_RejectedAddsChangeNothing ==
    [][/\ (op'.name = "add_relation"
             /\ (op'.args[1] \notin A.Q \/ op'.args[2] \notin A.Q)) => err' = "ValueError"
       /\ (op'.name = "add_condition"
             /\ (op'.args[3] \notin A.alphabet
                   \/ op'.args[1] \notin A.Q \/ op'.args[2] \notin A.Q)) => err' = "ValueError"
       /\ (op'.name \in {"add_relation", "add_condition"} /\ err' = "ValueError") => A' = A]_vars

\* add_condition rejected for its letter alone, on two states that have no
\* relation yet, in an automaton that has transitions.
C15_Witness ==
    /\ op.name = "add_condition"
    /\ err = "ValueError"
    /\ op.args[1] \in A.Q
    /\ op.args[2] \in A.Q
    /\ op.args[3] \notin A.alphabet
    /\ ~exist_rel(A, op.args[1], op.args[2])
    /\ create_table(A) # {}

\* -------------------------------------------- specification: load_table
\* One load_table call, on an automaton A that the constructor and the
\* mutators give, of a table of MaxTable triples at most, whose states are
\* of States and whose letters of ArgLetters.  A set of tuples that hold a
\* str is iterated in an order that changes from one run to the next: the
\* order todo is any order of the table.
Tables ==
    {t \in SUBSET (States \X ArgLetters \X States) : Cardinality(t) <= MaxTable}

InitTable ==
    /\ A \in Receivers
    /\ B = NoResult
    /\ R = NoResult
    /\ op = Call("init", <<>>)
    /\ err = "none"
    /\ heap = NoHeap

LoadTable ==
    /\ op.name = "init"
    /\ \E table \in Tables : \E todo \in Orders(table) :
         Mutated("load_table", <<table>>, load_table_loop(A, todo))

NextTable == LoadTable

SpecTable == InitTable /\ [][NextTable]_vars

\* C16: a load_table(table) call that is rejected, because a triple names a
\* symbol outside the alphabet or a state outside the states, leaves the
\* relations and the conditions as they were.
C16_RejectedTableChangesNothing ==
    [][(op'.name = "load_table" /\ err' = "ValueError") =>
          (A'.relations = A.relations /\ A'.conditions = A.conditions)]_vars

\* C17: product(A, B) and intersection(A, B) of automata whose alphabets
\* differ end in an error: no value is returned to the caller.
C17_AlphabetMismatchIsAnError ==
    (op.name \in {"product", "intersection"} /\ A.alphabet # B.alphabet) => err # "none"

\* ---------------------------------- specification: the parity automaton
\* The automaton of the words with an even number of "1": the constructor
\* call with no table, the add_condition calls of load_table for the four
\* transitions, in any order, and the queries, which leave their result in
\* R.value.
ParityAlphabet == {"0", "1"}

ParityTable == {<<1, "0", 1>>, <<1, "1", 2>>, <<2, "0", 2>>, <<2, "1", 1>>}

ParityWords == UNION {[1..n -> ParityAlphabet] : n \in 0..MaxWordLen}

InitParity ==
    /\ A = FiniteStateMachine(ParityAlphabet, {1, 2}, {1}, {1})
    /\ B = NoResult
    /\ R = NoResult
    /\ op = Call("init", <<>>)
    /\ err = "none"
    /\ heap = NoHeap

\* One add_condition call of load_table(ParityTable).
ParityLoad ==
    \E t \in ParityTable \ create_table(A) :
        Mutated("add_condition", <<t[1], t[3], t[2]>>, add_condition(A, t[1], t[3], t[2]))

\* A query returns value.
Answered(name, args, value) ==
    /\ op' = Call(name, args)
    /\ R' = [value |-> value]
    /\ err' = "none"
    /\ UNCHANGED <<A, B, heap>>

ParityAdmit == \E w \in ParityWords : Answered("admit", <<w>>, admit(A, w))

ParityIsDeterministic == Answered("is_deterministic", <<>>, is_deterministic(A))

ParityIsComplete == Answered("is_complete", <<>>, is_complete(A))

\* A.complementary().admit(w)
ParityComplementAdmit ==
    \E w \in ParityWords : \E order \in Orders(A.alphabet) :
        Answered("complementary.admit", <<w>>, admit(complementary(A, order), w))

NextParity ==
    \/ ParityLoad
    \/ ParityAdmit
    \/ ParityIsDeterministic
    \/ ParityIsComplete
    \/ ParityComplementAdmit

SpecParity == InitParity /\ [][NextParity]_vars

\* C18: for the parity automaton, admit("") is true, admit("1") is false,
\* admit("11") and admit("101") are true, is_deterministic() and
\* is_complete() are true, and its complementary() admits "1".
C18_ParityScenario ==
    create_table(A) = ParityTable =>
        /\ (op.name = "admit" /\ op.args[1] = <<>>) => R.value
        /\ (op.name = "admit" /\ op.args[1] = <<"1">>) => ~R.value
        /\ (op.name = "admit" /\ op.args[1] = <<"1", "1">>) => R.value
        /\ (op.name = "admit" /\ op.args[1] = <<"1", "0", "1">>) => R.value
        /\ op.name = "is_deterministic" => R.value
        /\ op.name = "is_complete" => R.value
        /\ (op.name = "complementary.admit" /\ op.args[1] = <<"1">>) => R.value

\* The complement of the whole parity automaton has been asked for "1".
C18_Witness ==
    /\ create_table(A) = ParityTable
    /\ op.name = "complementary.admit"
    /\ op.args[1] = <<"1">>

\* C19: after remove_state(q) on a state q of the automaton, in any state
\* that the mutators reach, q is in none of states, initials and finals, no
\* key or value of relations and no key of conditions mentions q, and the
\* relations and conditions between the other states are as they were.
C19_RemoveStateCascades ==
    [][(op'.name = "remove_state" /\ op'.args[1] \in A.Q) =>
          LET q == op'.args[1]
          IN  /\ q \notin A'.Q \cup A'.Qi \cup A'.Qf
              /\ q \notin DOMAIN A'.relations
              /\ \A k \in DOMAIN A'.relations : q \notin A'.relations[k]
              /\ \A k \in DOMAIN A'.conditions : k[1] # q /\ k[2] # q
              /\ \A a \in States \ {q}, b \in States \ {q} :
                    /\ exist_rel(A', a, b) = exist_rel(A, a, b)
                    /\ (<<a, b>> \in DOMAIN A'.conditions) = (<<a, b>> \in DOMAIN A.conditions)
                    /\ get_cond(A', a, b) = get_cond(A, a, b)]_vars

\* ------------------------------------------------- specification: admit
\* One admit(w) call, of a word of Words, on an automaton A that the
\* constructor and the mutators give over States.
Admit ==
    /\ op.name = "init"
    /\ \E w \in Words : Answered("admit", <<w>>, admit(A, w))

NextAdmit == Admit

SpecAdmit == Init /\ [][NextAdmit]_vars

\* The walk over sets of states: from the set S, each letter of word from
\* the position i on replaces the set by the union of possible_path over its
\* members.
RECURSIVE subset_walk(_, _, _, _)
subset_walk(fsm, S, word, i) ==
    IF i = Len(word) THEN S
    ELSE subset_walk(fsm, UNION {possible_path(fsm, q, word[i + 1]) : q \in S}, word, i + 1)

\* C20: for every automaton and every word w, admit(w) is the result of the
\* walk over sets of states: w is accepted iff the set reached from the
\* initials has a final state (for the empty word: iff an initial state is
\* final).
C20_AdmitIsSubsetWalk ==
    op.name = "admit" =>
        R.value = (subset_walk(A, A.Qi, op.args[1], 0) \cap A.Qf # {})

\* admit has accepted a word of two letters at least in an automaton that is
\* not deterministic and has two initial states.
C20_Witness ==
    /\ op.name = "admit"
    /\ R.value
    /\ Len(op.args[1]) >= 2
    /\ ~is_deterministic(A)
    /\ Cardinality(A.Qi) >= 2

\* ------------------------------- specification: exist_path, step by step
\* One exist_path(src, dest) call on an automaton A over PathStates whose
\* relations add_relation has made.  R holds the locals of the call: the
\* stack of the frames of _exist_path, top first, the two marker sets, which
\* all frames share, the value that the last return gave, and the result of
\* the call once the first frame has returned.  R.visits counts, for each
\* state, the frames that reached the for loop over its relations.
PathStates == {1, 2, 3}

PathCells == {<<"none", {}>>, <<"bare", {}>>}

PathAutomata ==
    UNION {{Build(Alphabet, Q, {}, {}, hist) : hist \in [Q \X Q -> PathCells]} :
              Q \in (SUBSET PathStates) \ {{}}}

InitPath ==
    /\ A \in PathAutomata
    /\ B = NoResult
    /\ R = NoResult
    /\ op = Call("init", <<>>)
    /\ err = "none"
    /\ heap = NoHeap

\* The frame of a call _exist_path(src, dest, black, gray) that has not
\* run yet.
Frame(src) == [src |-> src, pc |-> "enter", todo |-> <<>>]

\* exist_path(src, dest): two empty marker sets and the first frame.
ExistPath ==
    /\ op.name = "init"
    /\ \E src \in A.Q, dest \in A.Q :
         /\ op' = Call("exist_path", <<src, dest>>)
         /\ R' = [stack |-> <<Frame(src)>>, black |-> {}, gray |-> {},
                  ret |-> "none", result |-> "none", visits |-> [q \in A.Q |-> 0]]
    /\ UNCHANGED <<A, B, err, heap>>

\* A frame of _exist_path is running.
Running == op.name = "exist_path" /\ R.stack # <<>>

\* `return v` of the top frame: to the frame under it or, from the first
\* frame, to the caller of exist_path.
PathReturn(v) ==
    R' = [R EXCEPT !.stack = Tail(@),
                   !.ret = v,
                   !.result = IF Len(R.stack) = 1 THEN v ELSE @]

\* PathEnter that never marks a state black.
PathEnter_NoBlack ==
    /\ Running
    /\ Head(R.stack).pc = "enter"
    /\ LET src == Head(R.stack).src
           dest == op.args[2]
       IN  IF src = dest THEN PathReturn("True")
           ELSE IF src \in R.black THEN PathReturn("None")
           ELSE R' = [R EXCEPT
                        !.gray = IF src \in R.gray THEN @ \ {src} ELSE @ \cup {src},
                        !.visits[src] = @ + 1,
                        !.stack[1] = [src |-> src, pc |-> "loop",
                                      todo |-> SetOrder(get_rel(A, src))]]
    /\ UNCHANGED <<A, B, op, err, heap>>

\* The three tests and the marking of src, up to the for loop.
PathEnter ==
    /\ Running
    /\ Head(R.stack).pc = "enter"
    /\ LET src == Head(R.stack).src
           dest == op.args[2]
       IN  IF src = dest THEN PathReturn("True")
           ELSE IF src \in R.black THEN PathReturn("None")
           ELSE R' = [R EXCEPT
                        !.black = IF src \in R.gray THEN @ \cup {src} ELSE @,
                        !.gray = IF src \in R.gray THEN @ \ {src} ELSE @ \cup {src},
                        !.visits[src] = @ + 1,
                        !.stack[1] = [src |-> src, pc |-> "loop",
                                      todo |-> SetOrder(get_rel(A, src))]]
    /\ UNCHANGED <<A, B, op, err, heap>>

\* The for loop: the call for the next state of get_rel(src), or
\* `return False` once there is none.
PathLoop ==
    /\ Running
    /\ Head(R.stack).pc = "loop"
    /\ LET top == Head(R.stack)
       IN  IF top.todo = <<>> THEN PathReturn("False")
           ELSE R' = [R EXCEPT !.stack =
                        <<Frame(Head(top.todo)),
                          [top EXCEPT !.pc = "called", !.todo = Tail(@)]>> \o Tail(@)]
    /\ UNCHANGED <<A, B, op, err, heap>>

\* The call of the for loop returns whatever the inner call gave.
PathResume_ReturnAny ==
    /\ Running
    /\ Head(R.stack).pc = "called"
    /\ PathReturn(R.ret)
    /\ UNCHANGED <<A, B, op, err, heap>>

\* The inner call has returned: `return True` if it gave True, the next
\* turn of the for loop if not.
PathResume ==
    /\ Running
    /\ Head(R.stack).pc = "called"
    /\ IF R.ret = "True" THEN PathReturn("True")
       ELSE R' = [R EXCEPT !.stack[1].pc = "loop"]
    /\ UNCHANGED <<A, B, op, err, heap>>

NextPath ==
    \/ ExistPath
    \/ PathEnter
    \/ PathLoop
    \/ PathResume

SpecPath == InitPath /\ [][NextPath]_vars

\* The interpreter runs the call to its end.
SpecPathFair == SpecPath /\ WF_vars(NextPath)

\* The states that zero or more relations lead to from a state of S.
RECURSIVE ReachFrom(_, _)
ReachFrom(fsm, S) ==
    LET T == S \cup UNION {get_rel(fsm, q) : q \in S}
    IN  IF T = S THEN S ELSE ReachFrom(fsm, T)

\* exist_path(src, dest) has returned.
PathDone == op.name = "exist_path" /\ R.stack = <<>>

\* C21: for every automaton, cyclic relation graphs included, and all states
\* src and dest, exist_path(src, dest) returns, and what it returns is true
\* if and only if zero or more relations lead from src to dest.
C21_ExistPathDecides ==
    <>[](/\ PathDone
         /\ (R.result = "True") = (op.args[2] \in ReachFrom(A, {op.args[1]})))

\* A query that has returned with no path found, from a state that is on a
\* cycle of two states at least.
C21_Witness ==
    /\ PathDone
    /\ R.result # "True"
    /\ \E q \in get_rel(A, op.args[1]) \ {op.args[1]} : op.args[1] \in ReachFrom(A, {q})

\* C30: during one exist_path(src, dest) query, each state is visited (the
\* for loop over its relations is reached) at most once.
C30_VisitedOnce ==
    op.name = "exist_path" => \A q \in A.Q : R.visits[q] <= 1

\* C30, amended: during one exist_path(src, dest) query, each state is
\* visited at most twice.
C30_VisitedAtMostTwice ==
    op.name = "exist_path" => \A q \in A.Q : R.visits[q] <= 2

\* A query that has returned after it visited each of two states twice.
C30_Witness ==
    /\ PathDone
    /\ Cardinality({q \in A.Q : R.visits[q] = 2}) >= 2

\* ------------------------------------------------- claims on set_complete
\* The state that set_complete adds to A.
trash_of(fsm) == Max(fsm.Q) + 1

\* C22: in set_complete(A) for an incomplete automaton A, for every state q
\* of A and every symbol c, the result has a transition from q to the added
\* absorbing state labelled c if and only if possible_path(q, c) is empty in
\* A.
C22_TrashOnMissingSymbols ==
    (op.name = "set_complete" /\ err = "none" /\ ~is_complete(A)) =>
        \A q \in A.Q : \A c \in A.alphabet :
            (trash_of(A) \in possible_path(R, q, c)) <=> (possible_path(A, q, c) = {})

\* C23: if A is deterministic, set_complete(A) is deterministic: completion
\* gives no state a second destination for a symbol it has a transition on.
C23_CompleteKeepsDeterminism ==
    (op.name = "set_complete" /\ err = "none" /\ is_deterministic(A)) => is_deterministic(R)

\* --------------------------------------------- claims on set_deterministic
\* The composite states of the automaton fsm that set_deterministic built.
Composites(fsm) == {S \in fsm.Q : S[1] = "tuple"}

\* The states of self that the composite state S is made of.
Members(S) == {S[2][i] : i \in 1..Len(S[2])}

\* C24: in set_deterministic(A) for a nondeterministic A, every composite
\* state S of the result, the initial composite state included, is final if
\* and only if S contains a final state of A.
C24_FinalIffHoldsFinal ==
    (op.name = "set_deterministic" /\ ~is_deterministic(A)) =>
        \A S \in Composites(R) : (S \in R.Qf) <=> (Members(S) \cap A.Qf # {})

\* ------------------------ specification: set_deterministic, step by step
\* One set_deterministic() call on an automaton A over States that keeps the
\* invariants of the data model, with any transitions.  R holds the locals of the call: a, done,
\* trash_states and queue, the composite state `states` that the turn of
\* the while loop popped, and the letters that its for loop has yet to
\* take, in the order of the alphabet in this call.  R.pops counts, for each
\* composite state, the turns that popped it.
DetAutomata == RefAutomata(Cardinality(States \X States))

InitDet ==
    /\ A \in DetAutomata
    /\ B = NoResult
    /\ R = NoResult
    /\ op = Call("init", <<>>)
    /\ err = "none"
    /\ heap = NoHeap

DetCall ==
    /\ op.name = "init"
    /\ \E order \in Orders(A.alphabet) :
         /\ op' = Call("set_deterministic", <<order>>)
         /\ R' = IF is_deterministic(A)
                 THEN [a |-> copy(A), done |-> {}, trash_states |-> 0, queue |-> <<>>,
                       states |-> <<>>, letters |-> <<>>, pops |-> EmptyDict]
                 ELSE [a |-> DetStart(A).a, done |-> DetStart(A).done,
                       trash_states |-> DetStart(A).trash_states,
                       queue |-> DetStart(A).queue,
                       states |-> <<>>, letters |-> <<>>, pops |-> EmptyDict]
    /\ UNCHANGED <<A, B, err, heap>>

\* `states = tuple(queue.popleft()); done.add(states)`
DetTurn ==
    /\ op.name = "set_deterministic"
    /\ R.letters = <<>>
    /\ R.queue # <<>>
    /\ LET states == Head(R.queue)
           n == IF states \in DOMAIN R.pops THEN R.pops[states] ELSE 0
       IN  R' = [R EXCEPT !.queue = Tail(@),
                          !.done = @ \cup {states},
                          !.states = states,
                          !.letters = op.args[1],
                          !.pops = Put(@, states, n + 1)]
    /\ UNCHANGED <<A, B, op, err, heap>>

\* One turn of the for loop over the alphabet.
DetStep ==
    /\ op.name = "set_deterministic"
    /\ R.letters # <<>>
    /\ R' = [DetLetter(A, R, R.states, Head(R.letters)) EXCEPT !.letters = Tail(R.letters)]
    /\ UNCHANGED <<A, B, op, err, heap>>

NextDet ==
    \/ DetCall
    \/ DetTurn
    \/ DetStep

SpecDet == InitDet /\ [][NextDet]_vars

\* The automata of DetAutomata whose finals are their initials: the finals
\* of self decide only which states of a are final.
InitDetFair ==
    /\ A \in {v \in DetAutomata : v.Qf = v.Qi}
    /\ B = NoResult
    /\ R = NoResult
    /\ op = Call("init", <<>>)
    /\ err = "none"
    /\ heap = NoHeap

\* The interpreter runs the call to its end.
SpecDetFair == InitDetFair /\ [][NextDet]_vars /\ WF_vars(NextDet)

\* set_deterministic has returned a.
DetDone == op.name = "set_deterministic" /\ R.queue = <<>> /\ R.letters = <<>>

\* C25: during set_deterministic, each composite state is taken from the
\* worklist and expanded at most once, so that each pair of a composite
\* state and a symbol with no successor has exactly one absorbing state.
C25_ExpandedOnce ==
    op.name = "set_deterministic" =>
        /\ \A S \in DOMAIN R.pops : R.pops[S] <= 1
        /\ (DetDone /\ ~is_deterministic(A)) =>
              \A S \in Composites(R.a) : \A c \in A.alphabet :
                  (UNION {possible_path(A, q, c) : q \in Members(S)} = {}) =>
                      Cardinality(possible_path(R.a, S, c)) = 1

\* What is left to do of the call: the sets of states of A that are not in
\* done, the entries of the queue that are in done, the letters left of the
\* for loop.
DetLeft(self, w) ==
    <<Cardinality(SUBSET self.Q) - Cardinality(w.done),
      Cardinality({i \in 1..Len(w.queue) : w.queue[i] \in w.done}),
      Len(w.letters)>>

\* x comes before y in the lexicographic order of the triples of naturals.
LexLess(x, y) ==
    \/ x[1] < y[1]
    \/ x[1] = y[1] /\ x[2] < y[2]
    \/ x[1] = y[1] /\ x[2] = y[2] /\ x[3] < y[3]

\* C26: set_deterministic terminates on every automaton: the worklist
\* becomes empty and the call returns, every composite state it makes is a
\* set of states of the automaton, and each step of the loop leaves less to
\* do, in an order bounded by the number of the sets of states.
C26_DeterminizeTerminates ==
    /\ <>[]DetDone
    /\ []((op.name = "set_deterministic" /\ ~is_deterministic(A)) =>
             \A S \in Composites(R.a) \cup R.done : Members(S) \subseteq A.Q)
    /\ [][op.name = "set_deterministic" => LexLess(DetLeft(A, R'), DetLeft(A, R))]_vars

\* A call that has returned after a turn popped a composite state of two
\* states that an earlier turn had popped.
C26_Witness ==
    /\ DetDone
    /\ \E S \in DOMAIN R.pops : R.pops[S] >= 2 /\ Cardinality(Members(S)) = 2

\* ------------------------------------------ specification: the renamings
\* One rework_states call on an automaton A that the constructor and the
\* mutators give over States, or one create_different_states_names(B) call
\* on A, for B with calls on at most MaxEdges pairs of its states.  Of A,
\* create_different_states_names reads the states only: A has no relation,
\* no initial and no final state.
NewNames == States \cup {3}

\* The dicts d_states that give each state of Q a name of its own.
Renamings(Q) == {d \in [Q -> NewNames] : \A p, q \in Q : d[p] = d[q] => p = q}

InitNames ==
    \/ Init
    \/ /\ A \in {FiniteStateMachine(Alphabet, Q, {}, {}) : Q \in SUBSET States}
       /\ B \in Receivers
       /\ R = NoResult
       /\ op = Call("init", <<>>)
       /\ err = "none"
       /\ heap = NoHeap

\* A call with the arguments args returns the automaton fsm.
Gave(name, args, fsm) ==
    /\ op.name = "init"
    /\ op' = Call(name, args)
    /\ R' = fsm
    /\ err' = "none"
    /\ UNCHANGED <<A, B, heap>>

\* rework_states(d_states)
ReworkStates ==
    /\ B = NoResult
    /\ \E d \in Renamings(A.Q) : Gave("rework_states", <<d>>, rework_states(A, d))

\* rework_states(): d_states is the default dict.
ReworkStatesDefault ==
    /\ B = NoResult
    /\ Gave("rework_states", <<default_d_states(A)>>, rework_states(A, default_d_states(A)))

CreateDifferentStatesNames ==
    /\ B # NoResult
    /\ Gave("create_different_states_names", <<>>, create_different_states_names(A, B))

NextNames ==
    \/ ReworkStates
    \/ ReworkStatesDefault
    \/ CreateDifferentStatesNames

SpecNames == InitNames /\ [][NextNames]_vars

\* y is x with its states renamed by d: the states, the initials, the finals
\* and the table of y are the images of those of x.
Renamed(x, y, d) ==
    /\ y.Q = {d[q] : q \in x.Q}
    /\ y.Qi = {d[q] : q \in x.Qi}
    /\ y.Qf = {d[q] : q \in x.Qf}
    /\ create_table(y) = {<<d[t[1]], t[2], d[t[3]]>> : t \in create_table(x)}

\* C28: for every automaton A and every bijection d on its states, the
\* default one included, rework_states(d) returns an automaton whose states,
\* initials, finals and table are the images under d of those of A, and that
\* accepts the words A accepts.
C28_ReworkIsRelabelling ==
    op.name = "rework_states" => (Renamed(A, R, op.args[1]) /\ SameLanguage(R, A))

\* rework_states has exchanged the names of the two states of an automaton
\* that has a transition between them and accepts a word of two letters.
C28_Witness ==
    /\ op.name = "rework_states"
    /\ A.Q = {1, 2}
    /\ op.args[1][1] = 2
    /\ op.args[1][2] = 1
    /\ \E t \in create_table(A) : t[1] # t[3]
    /\ \E w \in Words : Len(w) >= 2 /\ admit(A, w)

\* C29: for all automata A and B, create_different_states_names(A, B)
\* returns an automaton that has no state of A and that is B with its states
\* renamed, each to a name of its own.
C29_RenamedApart ==
    op.name = "create_different_states_names" =>
        /\ R.Q \cap A.Q = {}
        /\ \E d \in [B.Q -> R.Q] :
              /\ \A p, q \in B.Q : d[p] = d[q] => p = q
              /\ Renamed(B, R, d)

\* The states of B have new names, one of which had to skip a state of A,
\* and B has a transition.
C29_Witness ==
    /\ op.name = "create_different_states_names"
    /\ A.Q = {2}
    /\ B.Q = {1, 2}
    /\ R.Q = {1, 3}
    /\ create_table(B) # {}

\* ------------------------------------------------ specification: product
\* One product call on two automata over Alphabet, each with calls on at
\* most MaxEdges pairs of its states and with any initials.  product does
\* not read the finals of its inputs: they have none.
ProductAutomata == {v \in Receivers : v.Qf = {}}

InitProduct ==
    /\ A \in ProductAutomata
    /\ B \in ProductAutomata
    /\ R = NoResult
    /\ op = Call("init", <<>>)
    /\ err = "none"
    /\ heap = NoHeap

NextProduct == Product

SpecProduct == InitProduct /\ [][NextProduct]_vars

\* C27: for automata A and B over the same alphabet, with B2 what
\* create_different_states_names gives for B, product(A, B) has the states
\* Q(A) x Q(B2), the initials Qi(A) x Qi(B2), no final state, and a
\* transition from (q, p) to (q2, p2) labelled c if and only if q2 is in
\* A.possible_path(q, c) and p2 is in B2.possible_path(p, c).
C27_ProductIsPairing ==
    (op.name = "product" /\ A.alphabet = B.alphabet) =>
        LET B2 == create_different_states_names(A, B)
        IN  /\ err = "none"
            /\ R.Q = A.Q \X B2.Q
            /\ R.Qi = A.Qi \X B2.Qi
            /\ R.Qf = {}
            /\ \A s \in A.Q \X B2.Q : \A n \in A.Q \X B2.Q : \A c \in A.alphabet :
                  (n \in possible_path(R, s, c)) <=>
                      (n[1] \in possible_path(A, s[1], c) /\ n[2] \in possible_path(B2, s[2], c))

\* A product of two automata that share a state name, each with an initial
\* state and a transition on one letter, that has a transition.
C27_Witness ==
    /\ op.name = "product"
    /\ err = "none"
    /\ A.alphabet = B.alphabet
    /\ A.Q \cap B.Q # {}
    /\ R.Qi # {}
    /\ create_table(R) # {}

====
